---- MODULE Spec2Model ----
(***************************************************************************)
(* The training entry points of phase_space_reconstruction/train.py as a   *)
(* state machine.  One behaviour is one call of one entry point: Setup,    *)
(* the epoch loop over the mini-batches (fetch, zero_grad, forward, loss,  *)
(* backward, step), the per-epoch tail (log, distribution dump, learning-  *)
(* rate decay) and Finalize.  Python objects live in a heap so that        *)
(* copy.deepcopy and aliasing are distinguishable; an uncaught exception   *)
(* ends the call in pc = "failed".                                         *)
(***************************************************************************)
EXTENDS Integers, Sequences, FiniteSets, TLC

\* ---------------------------------------------------------------- bounds
MaxEpochs == 2        \* n_epochs ranges over 0..MaxEpochs
MaxBatches == 2       \* len(train_dataloader) ranges over 0..MaxBatches
MaxFreq == 2          \* distribution_dump_frequency ranges over 0..MaxFreq

\* ------------------------------------------------------ program constants
LogEvery == 100            \* if i % 100 == 0: print(i, loss)
LogEveryPalxfel == 50      \* if i % 50 == 0: print(i, loss)

\* ------------------------------------------------------------ input sets
Variants == {"train_1d_scan", "train_1d_scan_sext", "train_1d_scan_multi_gpu",
             "train_3d_scan", "train_3d_scan_parallel_gpus",
             "train_3d_scan_palxfel_Simulation"}
CheckpointVariants == {"train_1d_scan_sext", "train_3d_scan",
                       "train_3d_scan_palxfel_Simulation"}
DecayVariants == {"train_3d_scan", "train_3d_scan_palxfel_Simulation"}
MentVariants == {"train_1d_scan", "train_1d_scan_multi_gpu",
                 "train_3d_scan_parallel_gpus"}
Devices == {"cpu", "cuda:0"}
Paths == {"None", "path"}
Pixels == {0, 1}     \* abstract pixel values of an image
Grads == {1}         \* abstract gradient values
TrainParticles == {1}
DumpParticles == {2}
Lambdas == {2}
LearningRates == {1}

VARIABLES
  cfg,            \* the arguments of the call (and len(train_dataloader))
  cuda_available, \* whether the host has a CUDA device
  pc,             \* position in the entry point
  error,          \* phase of the uncaught exception, "none" while running
  epoch,          \* loop variable i; the number of epochs executed at loop exit
  batch,          \* mini-batches completed in the current epoch
  heap,           \* Python module objects: id -> [params, grad, seed, n, device]
  model,          \* id of the (unwrapped) live model
  model_copy,     \* id of the latest copy.deepcopy(model), 0 if none
  next_id,        \* next unused object id
  next_seed,      \* next unused base-beam draw
  lr,             \* optimizer learning rate: base * gamma^decays
  targets,        \* measured images of the fetched mini-batch
  output,         \* result of the forward pass of the mini-batch
  losses,         \* loss_image1, loss_image2 and loss; loss = Unbound before
  backprop,       \* the scalar .backward() was last called on
  sink,           \* persisted snapshots: epoch index -> distribution
  result_file,    \* the final distribution written by torch.save
  returned,       \* the value returned by the call
  ops,            \* operations performed so far in the current mini-batch
  param_writes    \* number of writes of the GenerativeTransform parameters

vars == <<cfg, cuda_available, pc, error, epoch, batch, heap, model, model_copy,
          next_id, next_seed, lr, targets, output, losses, backprop, sink,
          result_file, returned, ops, param_writes>>

Unbound == 0 - 1
FirstSeed == 1      \* the base beam drawn when InitialBeam is constructed
NoBeam == [params |-> 0, seed |-> 0, n |-> 0]
NoOutput == [fwd |-> 0, img1 |-> 0, img2 |-> 0, entropy |-> 0]

Abs(x) == IF x < 0 THEN 0 - x ELSE x

\* ----------------------------------------------------------- the arguments
Configs ==
  { c \in [variant : Variants, n_epochs : 0..MaxEpochs, n_batches : 0..MaxBatches,
           device : Devices, n_particles : TrainParticles,
           save_as : Paths, save_dir : Paths,
           distribution_dump_frequency : 0..MaxFreq,
           distribution_dump_n_particles : DumpParticles,
           use_decay : BOOLEAN, lr : LearningRates, lambda_ : Lambdas] :
      \* parameters an entry point does not have are held at one value
      /\ (c.variant \in CheckpointVariants => c.save_as = "None")
      /\ (c.variant \notin CheckpointVariants =>
            /\ c.save_dir = "None"
            /\ c.distribution_dump_frequency = 1
            /\ c.distribution_dump_n_particles = 2)
      /\ (c.variant \notin DecayVariants => ~c.use_decay) }

Init ==
  /\ cfg \in Configs
  /\ cuda_available \in BOOLEAN
  /\ pc = "setup"
  /\ error = "none"
  /\ epoch = 0
  /\ batch = 0
  /\ heap = << >>
  /\ model = 0
  /\ model_copy = 0
  /\ next_id = 1
  /\ next_seed = FirstSeed
  /\ lr = [base |-> cfg.lr, decays |-> 0]
  /\ targets = <<0, 0>>
  /\ output = NoOutput
  /\ losses = [image1 |-> Unbound, image2 |-> Unbound, loss |-> Unbound]
  /\ backprop = Unbound
  /\ sink = << >>
  /\ result_file = NoBeam
  /\ returned = [done |-> FALSE, beam |-> NoBeam, model |-> 0]
  /\ ops = << >>
  /\ param_writes = 0

\* ------------------------------------------------------- heap and objects
\* h with object id bound to rec (a new object when id is not yet in h)
Store(h, id, rec) ==
  [x \in (DOMAIN h) \cup {id} |-> IF x = id THEN rec ELSE h[x]]

\* h restricted to the objects some variable still refers to
Retain(h, ids) == [x \in (DOMAIN h) \cap ids |-> h[x]]

\* as a bug: model_copy = model, no copy is made
AliasCopy(id) == id

\* copy.deepcopy(model): the id of the copy, a fresh object
DeepCopy(id) == next_id

\* Module.to(device), in place on the object
ToDevice(h, id, dev) == Store(h, id, [h[id] EXCEPT !.device = dev])

\* beam.set_base_beam(n, p0c): discard the base beam, draw a new one of size n
SetBaseBeam(h, id, n) == Store(h, id, [h[id] EXCEPT !.seed = next_seed, !.n = n])

\* beam.forward().detach_clone(): the ensemble generated from the object's
\* current parameters and base beam, as a value
BeamForward(obj) == [params |-> obj.params, seed |-> obj.seed, n |-> obj.n]

\* ------------------------------------------------------------ loss terms
MAELoss(out, target) == Abs(out.img1 - target)
MAELoss2(out, target) == Abs(out.img2 - target)
MENTLoss(out, target) == Abs(out.img1 - target) + cfg.lambda_ * out.entropy

\* as a bug: the two screen terms averaged
AverageLoss(l1, l2) == (l1 + l2) \div 2

\* loss = loss_image1 + loss_image2
TotalLoss(l1, l2) == l1 + l2

\* ---------------------------------------------------------- control flow
\* range(n_epochs) or range(n_epochs + 1)
NumEpochs(c) ==
  IF c.variant \in CheckpointVariants THEN c.n_epochs + 1 ELSE c.n_epochs

LogPeriod(c) ==
  IF c.variant = "train_3d_scan_palxfel_Simulation" THEN LogEveryPalxfel
  ELSE LogEvery

\* first statement after the mini-batch loop of an epoch
EpochTail ==
  IF cfg.variant = "train_1d_scan_sext" THEN "dump" ELSE "log"

\* the for-statement over range(...) with loop variable at e
EpochHead(e) ==
  IF e < NumEpochs(cfg)
  THEN IF cfg.n_batches > 0 THEN "fetch" ELSE EpochTail
  ELSE "finalize"

NextEpoch ==
  /\ epoch' = epoch + 1
  /\ batch' = 0
  /\ pc' = EpochHead(epoch + 1)

\* an exception nobody catches leaves the entry point
Raise(phase) ==
  /\ pc' = "failed"
  /\ error' = phase

\* the device the model is moved to after the epoch loop
FinalDevice(c) ==
  IF c.variant = "train_3d_scan_parallel_gpus" THEN "cuda" ELSE "cpu"

\* --------------------------------------------------------------- actions
\* device selection, data placement, model and optimizer construction
SetupFails ==
  /\ pc = "setup"
  /\ \/ cfg.variant = "train_1d_scan_sext"   \* SextPhaseSpaceReconstructionModel is not defined
     \/ (cfg.device = "cuda:0" /\ ~cuda_available)
  /\ Raise("setup")
  /\ UNCHANGED <<cfg, cuda_available, epoch, batch, heap, model, model_copy,
                 next_id, next_seed, lr, targets, output, losses, backprop,
                 sink, result_file, returned, ops, param_writes>>

Setup ==
  /\ pc = "setup"
  /\ cfg.variant # "train_1d_scan_sext"
  /\ (cfg.device = "cuda:0" => cuda_available)
  /\ heap' = Store(heap, next_id,
                   [params |-> 0, grad |-> 0, seed |-> next_seed,
                    n |-> cfg.n_particles, device |-> cfg.device])
  /\ model' = next_id
  /\ next_id' = next_id + 1
  /\ next_seed' = next_seed + 1
  /\ lr' = [base |-> cfg.lr, decays |-> 0]
  /\ pc' = EpochHead(0)
  /\ UNCHANGED <<cfg, cuda_available, error, epoch, batch, model_copy, targets,
                 output, losses, backprop, sink, result_file, returned, ops,
                 param_writes>>

\* for elem in train_dataloader: ... = elem[0], elem[1][, elem[2]]
FetchBatch ==
  /\ pc = "fetch"
  /\ \E t1 \in Pixels :
       \E t2 \in (IF cfg.variant = "train_3d_scan_palxfel_Simulation"
                  THEN Pixels ELSE {0}) :
         targets' = <<t1, t2>>
  /\ ops' = << >>
  /\ pc' = "zero_grad"
  /\ UNCHANGED <<cfg, cuda_available, error, epoch, batch, heap, model,
                 model_copy, next_id, next_seed, lr, output, losses, backprop,
                 sink, result_file, returned, param_writes>>

\* optimizer.zero_grad()
ZeroGrad ==
  /\ pc = "zero_grad"
  /\ heap' = Store(heap, model, [heap[model] EXCEPT !.grad = 0])
  /\ ops' = Append(ops, "zero_grad")
  /\ pc' = "forward"
  /\ UNCHANGED <<cfg, cuda_available, error, epoch, batch, model, model_copy,
                 next_id, next_seed, lr, targets, output, losses, backprop,
                 sink, result_file, returned, param_writes>>

\* output = model(params_i, ids): beam generation, transport, image formation
Forward ==
  /\ pc = "forward"
  /\ \E i1 \in Pixels :
       \E i2 \in (IF cfg.variant = "train_3d_scan_palxfel_Simulation"
                  THEN Pixels ELSE {0}) :
         \E en \in (IF cfg.variant \in MentVariants THEN Pixels ELSE {0}) :
           output' = [fwd |-> epoch * cfg.n_batches + batch + 1,
                      img1 |-> i1, img2 |-> i2, entropy |-> en]
  /\ ops' = Append(ops, "forward")
  /\ pc' = "loss"
  /\ UNCHANGED <<cfg, cuda_available, error, epoch, batch, heap, model,
                 model_copy, next_id, next_seed, lr, targets, losses, backprop,
                 sink, result_file, returned, param_writes>>

\* as a bug: the exception is caught and the mini-batch skipped
ForwardFails_Skip ==
  /\ pc = "forward"
  /\ batch' = batch + 1
  /\ pc' = IF batch + 1 < cfg.n_batches THEN "fetch" ELSE EpochTail
  /\ UNCHANGED <<cfg, cuda_available, error, epoch, heap, model, model_copy,
                 next_id, next_seed, lr, targets, output, losses, backprop,
                 sink, result_file, returned, ops, param_writes>>

\* the forward pass raises (transport oracle, image formation, device)
ForwardFails ==
  /\ pc = "forward"
  /\ Raise("forward")
  /\ UNCHANGED <<cfg, cuda_available, epoch, batch, heap, model, model_copy,
                 next_id, next_seed, lr, targets, output, losses, backprop,
                 sink, result_file, returned, ops, param_writes>>

\* as a bug: optimizer.step() follows the loss, loss.backward() is left out
ComputeLoss_ThenStep ==
  /\ pc = "loss"
  /\ losses' = [losses EXCEPT !.loss = MAELoss(output, targets[1])]
  /\ ops' = Append(ops, "loss")
  /\ pc' = "step"
  /\ UNCHANGED <<cfg, cuda_available, error, epoch, batch, heap, model,
                 model_copy, next_id, next_seed, lr, targets, output, backprop,
                 sink, result_file, returned, param_writes>>

\* loss = loss_fn(output, target_images), or the sum of the two screen terms
ComputeLoss ==
  /\ pc = "loss"
  /\ losses' =
       IF cfg.variant = "train_3d_scan_palxfel_Simulation"
       THEN [image1 |-> MAELoss(output, targets[1]),
             image2 |-> MAELoss2(output, targets[2]),
             loss |-> TotalLoss(MAELoss(output, targets[1]),
                                MAELoss2(output, targets[2]))]
       ELSE [losses EXCEPT !.loss =
               IF cfg.variant \in MentVariants
               THEN MENTLoss(output, targets[1])
               ELSE MAELoss(output, targets[1])]
  /\ ops' = Append(ops, "loss")
  /\ pc' = "backward"
  /\ UNCHANGED <<cfg, cuda_available, error, epoch, batch, heap, model,
                 model_copy, next_id, next_seed, lr, targets, output, backprop,
                 sink, result_file, returned, param_writes>>

\* loss.backward() (loss.mean().backward() under DataParallel): the gradient
\* of the scalar is accumulated into the parameters' .grad
Backward ==
  /\ pc = "backward"
  /\ backprop' = losses.loss
  /\ \E g \in Grads :
       heap' = Store(heap, model, [heap[model] EXCEPT !.grad = @ + g])
  /\ ops' = Append(ops, "backward")
  /\ pc' = "step"
  /\ UNCHANGED <<cfg, cuda_available, error, epoch, batch, model, model_copy,
                 next_id, next_seed, lr, targets, output, losses, sink,
                 result_file, returned, param_writes>>

BackwardFails ==
  /\ pc = "backward"
  /\ Raise("backward")
  /\ UNCHANGED <<cfg, cuda_available, epoch, batch, heap, model, model_copy,
                 next_id, next_seed, lr, targets, output, losses, backprop,
                 sink, result_file, returned, ops, param_writes>>

\* as a bug: scheduler.step() inside the mini-batch loop, after optimizer.step()
OptimizerStep_WithDecay ==
  /\ pc = "step"
  /\ heap' = Store(heap, model, [heap[model] EXCEPT !.params = @ - heap[model].grad])
  /\ param_writes' = param_writes + 1
  /\ ops' = Append(ops, "step")
  /\ batch' = batch + 1
  /\ lr' = IF cfg.use_decay THEN [lr EXCEPT !.decays = @ + 1] ELSE lr
  /\ pc' = IF batch + 1 < cfg.n_batches THEN "fetch" ELSE EpochTail
  /\ UNCHANGED <<cfg, cuda_available, error, epoch, model, model_copy, next_id,
                 next_seed, targets, output, losses, backprop, sink,
                 result_file, returned>>

\* optimizer.step(), then the next mini-batch or the end of the epoch's batches
OptimizerStep ==
  /\ pc = "step"
  /\ heap' = Store(heap, model, [heap[model] EXCEPT !.params = @ - heap[model].grad])
  /\ param_writes' = param_writes + 1
  /\ ops' = Append(ops, "step")
  /\ batch' = batch + 1
  /\ pc' = IF batch + 1 < cfg.n_batches THEN "fetch" ELSE EpochTail
  /\ UNCHANGED <<cfg, cuda_available, error, epoch, model, model_copy, next_id,
                 next_seed, lr, targets, output, losses, backprop, sink,
                 result_file, returned>>

\* if i % 100 == 0: print(i, loss)
LogDue == epoch % LogPeriod(cfg) = 0

\* print(i, loss) with loss never assigned: no mini-batch has run
LogFails ==
  /\ pc = "log"
  /\ LogDue
  /\ losses.loss = Unbound
  /\ Raise("log")
  /\ UNCHANGED <<cfg, cuda_available, epoch, batch, heap, model, model_copy,
                 next_id, next_seed, lr, targets, output, losses, backprop,
                 sink, result_file, returned, ops, param_writes>>

Log ==
  /\ pc = "log"
  /\ (LogDue => losses.loss # Unbound)
  /\ IF cfg.variant \in DecayVariants
     THEN pc' = "dump" /\ UNCHANGED <<epoch, batch>>
     ELSE NextEpoch
  /\ UNCHANGED <<cfg, cuda_available, error, heap, model, model_copy, next_id,
                 next_seed, lr, targets, output, losses, backprop, sink,
                 result_file, returned, ops, param_writes>>

\* first statement after the distribution dump of an epoch
AfterDump ==
  IF cfg.variant = "train_1d_scan_sext" THEN "log" ELSE "decay"

\* i % distribution_dump_frequency with a frequency of 0
DumpModuloFails ==
  /\ pc = "dump"
  /\ cfg.distribution_dump_frequency = 0
  /\ Raise("dump_frequency")
  /\ UNCHANGED <<cfg, cuda_available, epoch, batch, heap, model, model_copy,
                 next_id, next_seed, lr, targets, output, losses, backprop,
                 sink, result_file, returned, ops, param_writes>>

\* as a bug: the dump condition counts epochs from 1, (i + 1) % frequency
DumpDue_FromOne ==
  /\ cfg.distribution_dump_frequency # 0
  /\ (epoch + 1) % cfg.distribution_dump_frequency = 0
  /\ cfg.save_dir # "None"

\* if i % distribution_dump_frequency == 0: if save_dir is not None:
DumpDue ==
  /\ cfg.distribution_dump_frequency # 0
  /\ epoch % cfg.distribution_dump_frequency = 0
  /\ cfg.save_dir # "None"

DumpSkip ==
  /\ pc = "dump"
  /\ cfg.distribution_dump_frequency # 0
  /\ ~DumpDue
  /\ pc' = AfterDump
  /\ UNCHANGED <<cfg, cuda_available, error, epoch, batch, heap, model,
                 model_copy, next_id, next_seed, lr, targets, output, losses,
                 backprop, sink, result_file, returned, ops, param_writes>>

\* as a bug: copy.deepcopy(model.to("cpu")), the live model is moved first
CopyForDump_MoveLive ==
  LET c == next_id
      h1 == ToDevice(heap, model, "cpu")
      h2 == Store(h1, c, h1[model])
      h3 == Store(h2, c, [h2[c] EXCEPT !.seed = next_seed,
                                       !.n = cfg.distribution_dump_n_particles])
  IN  [x \in {model, c} |-> h3[x]]

\* model_copy = copy.deepcopy(model).to("cpu");
\* model_copy.beam.set_base_beam(distribution_dump_n_particles, ...):
\* the heap afterwards, the previous copy being dropped
CopyForDump ==
  LET c == DeepCopy(model)
      h1 == Store(heap, c, heap[model])
      h2 == ToDevice(h1, c, "cpu")
      h3 == SetBaseBeam(h2, c, cfg.distribution_dump_n_particles)
  IN  Retain(h3, {model, c})

\* the dump of the epoch: copy, move to host memory, reseed, torch.save
Checkpoint ==
  /\ pc = "dump"
  /\ DumpDue
  /\ heap' = CopyForDump
  /\ model_copy' = DeepCopy(model)
  /\ next_id' = next_id + 1
  /\ next_seed' = next_seed + 1
  /\ sink' = Store(sink, epoch, BeamForward(CopyForDump[DeepCopy(model)]))
  /\ pc' = AfterDump
  /\ UNCHANGED <<cfg, cuda_available, error, epoch, batch, model, lr, targets,
                 output, losses, backprop, result_file, returned, ops,
                 param_writes>>

\* torch.save of the snapshot raises
CheckpointSaveFails ==
  /\ pc = "dump"
  /\ DumpDue
  /\ heap' = CopyForDump
  /\ model_copy' = DeepCopy(model)
  /\ next_id' = next_id + 1
  /\ next_seed' = next_seed + 1
  /\ Raise("checkpoint")
  /\ UNCHANGED <<cfg, cuda_available, epoch, batch, model, lr, targets, output,
                 losses, backprop, sink, result_file, returned, ops,
                 param_writes>>

\* if use_decay: scheduler.step() (and print(scheduler.get_last_lr()))
Decay ==
  /\ pc = "decay"
  /\ lr' = IF cfg.use_decay THEN [lr EXCEPT !.decays = @ + 1] ELSE lr
  /\ NextEpoch
  /\ UNCHANGED <<cfg, cuda_available, error, heap, model, model_copy, next_id,
                 next_seed, targets, output, losses, backprop, sink,
                 result_file, returned, ops, param_writes>>

\* whether the final distribution is written by torch.save
FinalSave ==
  IF cfg.variant \in DecayVariants THEN cfg.save_dir # "None"
  ELSE IF cfg.variant = "train_1d_scan_sext" THEN FALSE
  ELSE cfg.save_as # "None"

\* model = model.to(...) after the loop, on a host that cannot place it there
FinalizeMoveFails ==
  /\ pc = "finalize"
  /\ FinalDevice(cfg) = "cuda"
  /\ ~cuda_available
  /\ Raise("finalize")
  /\ UNCHANGED <<cfg, cuda_available, epoch, batch, heap, model, model_copy,
                 next_id, next_seed, lr, targets, output, losses, backprop,
                 sink, result_file, returned, ops, param_writes>>

\* the heap after model = model.to(...) following the loop
FinalHeap == ToDevice(heap, model, FinalDevice(cfg))

\* as a bug: the distribution is generated from the last dump's copy
PredictedBeam_FromCopy ==
  LET src == IF model_copy # 0 THEN model_copy ELSE model
  IN  [params |-> heap[src].params, seed |-> heap[src].seed, n |-> heap[src].n]

\* predicted_beam = model.beam.forward().detach_clone()
PredictedBeam == BeamForward(FinalHeap[model])

\* torch.save(predicted_beam, ...) raises
FinalizeSaveFails ==
  /\ pc = "finalize"
  /\ (FinalDevice(cfg) = "cuda" => cuda_available)
  /\ FinalSave
  /\ heap' = FinalHeap
  /\ Raise("finalize")
  /\ UNCHANGED <<cfg, cuda_available, epoch, batch, model, model_copy, next_id,
                 next_seed, lr, targets, output, losses, backprop, sink,
                 result_file, returned, ops, param_writes>>

\* move the model, generate the distribution, save it, return
Finalize ==
  /\ pc = "finalize"
  /\ (FinalDevice(cfg) = "cuda" => cuda_available)
  /\ result_file' = IF FinalSave THEN PredictedBeam ELSE result_file
  /\ IF cfg.variant \in DecayVariants
     THEN /\ heap' = Store(FinalHeap, DeepCopy(model), FinalHeap[model])
          /\ returned' = [done |-> TRUE, beam |-> PredictedBeam,
                          model |-> DeepCopy(model)]
          /\ next_id' = next_id + 1
     ELSE /\ heap' = FinalHeap
          /\ returned' = [done |-> TRUE, beam |-> PredictedBeam, model |-> 0]
          /\ UNCHANGED next_id
  /\ pc' = "done"
  /\ UNCHANGED <<cfg, cuda_available, error, epoch, batch, model, model_copy,
                 next_seed, lr, targets, output, losses, backprop, sink, ops,
                 param_writes>>

Next ==
  \/ SetupFails
  \/ Setup
  \/ FetchBatch
  \/ ZeroGrad
  \/ Forward
  \/ ForwardFails
  \/ ComputeLoss
  \/ Backward
  \/ BackwardFails
  \/ OptimizerStep
  \/ LogFails
  \/ Log
  \/ DumpModuloFails
  \/ DumpSkip
  \/ Checkpoint
  \/ CheckpointSaveFails
  \/ Decay
  \/ FinalizeMoveFails
  \/ FinalizeSaveFails
  \/ Finalize

Spec == Init /\ [][Next]_vars

\* ---------------------------------------------------------------- claims
BatchOps == <<"zero_grad", "forward", "loss", "backward", "step">>

IsPrefix(a, b) == Len(a) <= Len(b) /\ a = SubSeq(b, 1, Len(a))

\* C1: for every entry point the epoch loop is left, and Finalize entered,
\* after exactly n_epochs epochs have been executed.
C1_EpochsEqualNEpochs ==
  pc = "finalize" => epoch = cfg.n_epochs

\* C2: in the checkpointing variants a distribution_dump_frequency of 0
\* disables checkpointing: the dump step of an epoch never raises, and no
\* dist_<epoch> snapshot is persisted.
C2_ZeroFrequencyDisables ==
  (cfg.variant \in CheckpointVariants /\ cfg.distribution_dump_frequency = 0)
    => (error # "dump_frequency" /\ DOMAIN sink = {})

\* C3: a failure to persist a checkpoint snapshot does not abort training:
\* the call is never ended by the exception of the snapshot's torch.save.
C3_SaveFailureNotFatal ==
  ~(pc = "failed" /\ error = "checkpoint")

\* C4: the checkpoint step leaves the live model (parameters, gradient,
\* LatentSeed, particle count, device) and the optimizer state as they were;
\* the object moved to host memory and reseeded to
\* distribution_dump_n_particles is a copy distinct from the live model.
C4_CheckpointFrame ==
  [][pc = "dump" =>
       /\ model' = model
       /\ heap'[model] = heap[model]
       /\ lr' = lr
       /\ param_writes' = param_writes
       /\ (model_copy' # model_copy =>
             /\ model_copy' # model
             /\ heap'[model_copy'].device = "cpu"
             /\ heap'[model_copy'].n = cfg.distribution_dump_n_particles
             /\ heap'[model_copy'].seed # heap[model].seed
             /\ heap'[model_copy'].params = heap[model].params)]_vars

\* C4 witness: a checkpoint was taken of a model training on the accelerator
\* with a dump particle count different from the training one.
C4_Witness ==
  /\ pc = "decay"
  /\ model_copy # 0
  /\ heap[model].device = "cuda:0"
  /\ heap[model_copy].device = "cpu"
  /\ heap[model_copy].n # heap[model].n

\* C5: a snapshot, once taken, is unaffected by every later step: the copy's
\* parameters and every persisted distribution stay as they are while the
\* live model is trained further, and neither the dump copy nor the returned
\* copy of the trained model is the live model object.
C5_SnapshotIsolation ==
  [][/\ (model_copy # 0 => model_copy # model)
     /\ ((model_copy # 0 /\ model_copy' = model_copy) =>
           heap'[model_copy].params = heap[model_copy].params)
     /\ (\A e \in DOMAIN sink : e \in DOMAIN sink' /\ sink'[e] = sink[e])
     /\ ((returned'.done /\ cfg.variant \in DecayVariants) =>
           /\ returned'.model # model'
           /\ heap'[returned'.model].params = heap'[model'].params)]_vars

\* C5 witness: after a snapshot at an earlier epoch the live model has been
\* stepped again, so its parameters differ from the snapshot's.
C5_Witness ==
  /\ model_copy # 0
  /\ DOMAIN sink # {}
  /\ heap[model].params # heap[model_copy].params
  /\ \E e \in DOMAIN sink : sink[e].params # heap[model].params

\* C6: the returned distribution is generated from the live model: it has
\* n_particles particles, the LatentSeed drawn at construction and the live
\* model's final parameters, whatever checkpoints were taken.
C6_ReturnedFromLiveModel ==
  returned.done =>
    /\ returned.beam.n = cfg.n_particles
    /\ returned.beam.seed = FirstSeed
    /\ returned.beam.params = heap[model].params
    /\ \A e \in DOMAIN sink : sink[e].seed # returned.beam.seed

\* C6 witness: a run that took a checkpoint with another particle count and
\* then returned.
C6_Witness ==
  /\ returned.done
  /\ DOMAIN sink # {}
  /\ cfg.distribution_dump_n_particles # cfg.n_particles
  /\ param_writes > 0

\* C7: in the dual-screen step the scalar passed to backward() is
\* loss_image1 + loss_image2, both terms computed from the one forward
\* output of this mini-batch, with one forward and one backward pass before
\* the single optimizer step of the mini-batch.
C7_DualLossIsSum ==
  (cfg.variant = "train_3d_scan_palxfel_Simulation" /\ pc = "step") =>
    /\ backprop = losses.image1 + losses.image2
    /\ losses.image1 = MAELoss(output, targets[1])
    /\ losses.image2 = MAELoss2(output, targets[2])
    /\ output.fwd = epoch * cfg.n_batches + batch + 1
    /\ ops = SubSeq(BatchOps, 1, 4)
    /\ param_writes = epoch * cfg.n_batches + batch

\* C7 witness: both screen terms are 1, so the sum differs from the average
\* and from either term alone.
C7_Witness ==
  /\ cfg.variant = "train_3d_scan_palxfel_Simulation"
  /\ pc = "step"
  /\ losses.image1 = 1
  /\ losses.image2 = 1
  /\ backprop = 2

\* C8: when an entry point returns, its model is in host memory.
C8_FinalizeOnCpu ==
  returned.done => heap[model].device = "cpu"

\* C9: a failing forward or backward pass ends the call: from the forward
\* (backward) position the run goes on to the loss (the step) or fails there,
\* a mini-batch is completed only by its optimizer step, the failure changes
\* nothing but the control state, nothing happens after it and nothing is
\* returned.
C9_ForwardBackwardFatal ==
  [][/\ pc # "failed"
     /\ (pc = "forward" => pc' \in {"loss", "failed"})
     /\ (pc = "backward" => pc' \in {"step", "failed"})
     /\ (batch' = batch + 1 => pc = "step")
     /\ ((pc' = "failed" /\ error' \in {"forward", "backward"}) =>
           /\ pc \in {"forward", "backward"}
           /\ ~returned'.done
           /\ returned'.beam = NoBeam
           /\ UNCHANGED <<epoch, batch, heap, lr, sink, result_file,
                          param_writes>>)]_vars

\* C9 witness: a forward pass failed in a later epoch, after optimizer steps,
\* a checkpoint and a learning-rate decay.
C9_Witness ==
  /\ pc = "failed"
  /\ error = "forward"
  /\ epoch > 0
  /\ param_writes > 0
  /\ DOMAIN sink # {}
  /\ lr.decays > 0

\* C10: the operations of a mini-batch occur in the order zero_grad, forward,
\* loss, backward, step; the parameters are written once per completed
\* mini-batch, by the optimizer step and by no other step of the run.
C10_OrderAndSingleWriter ==
  /\ [](pc \notin {"setup"} =>
          /\ IsPrefix(ops, BatchOps)
          /\ (model # 0 => param_writes = epoch * cfg.n_batches + batch))
  /\ [][pc # "setup" =>
          /\ model' = model
          /\ ((heap'[model].params # heap[model].params
               \/ param_writes' # param_writes) =>
                /\ pc = "step"
                /\ param_writes' = param_writes + 1
                /\ ops' = BatchOps)]_vars

\* C10 witness: a completed run with several mini-batches per epoch, a
\* checkpoint and a learning-rate decay.
C10_Witness ==
  /\ pc = "done"
  /\ cfg.n_batches > 1
  /\ param_writes > 2
  /\ DOMAIN sink # {}
  /\ lr.decays > 0

\* gamma = 0.999 as the fraction GammaNum / GammaDen
GammaNum == 999
GammaDen == 1000

\* a <= b for learning rates base * gamma^decays of one non-negative base:
\* with gamma below 1 more decays give the smaller rate
LrLeq(a, b) ==
  /\ a.base = b.base
  /\ a.base >= 0
  /\ IF GammaNum < GammaDen THEN a.decays >= b.decays
     ELSE IF GammaNum = GammaDen THEN TRUE
     ELSE a.decays <= b.decays

DumpedEpochs ==
  { i \in 0..epoch : i < epoch \/ (pc = AfterDump /\ cfg.variant \in CheckpointVariants) }

\* C12: with a save directory and a dump frequency K >= 1 the persisted
\* snapshots are exactly those of the epochs i with i % K = 0 among the
\* epochs whose dump step has been passed, the snapshot under key i being the
\* distribution of the model after epoch i with the dump particle count;
\* snapshots are added one at a time under keys larger than all earlier
\* ones; with no save directory nothing is persisted.
C12_SnapshotEpochs ==
  /\ [](/\ (cfg.save_dir = "None" => DOMAIN sink = {})
        /\ ((cfg.save_dir # "None" /\ cfg.distribution_dump_frequency >= 1) =>
              /\ DOMAIN sink =
                   { i \in DumpedEpochs : i % cfg.distribution_dump_frequency = 0 }
              /\ \A i \in DOMAIN sink :
                   /\ sink[i].n = cfg.distribution_dump_n_particles
                   /\ sink[i].params = 0 - (i + 1) * cfg.n_batches))
  /\ [][DOMAIN sink' # DOMAIN sink =>
          /\ DOMAIN sink' = DOMAIN sink \cup {epoch}
          /\ \A k \in DOMAIN sink : k < epoch /\ sink'[k] = sink[k]]_vars

\* C12 witness: a completed run of three epochs with frequency 2 that
\* persisted the snapshots of epochs 0 and 2 and skipped epoch 1.
C12_Witness ==
  /\ pc = "done"
  /\ cfg.distribution_dump_frequency = 2
  /\ cfg.n_batches > 0
  /\ DOMAIN sink = {0, 2}

\* C13: with use_decay the learning rate at the end of training is
\* gamma * lr: over the whole run gamma has been applied exactly once.
C13_FinalLrIsGammaLr ==
  (returned.done /\ cfg.use_decay) =>
    (lr.base = cfg.lr /\ lr.decays = 1)

====
